---- MODULE Spec2Model ----
(***************************************************************************)
(* DataLoader.merge_with_bundesland of                                     *)
(* Refactoring2/src/data_processing/data_loader.py: the city -> Bundesland *)
(* resolver (exact pass over a cleaned-name mapping, then a character-set  *)
(* fuzzy pass), modelled statement by statement on small tables, and the   *)
(* loaders and the per-state filter of Refactoring2/main.py around it.     *)
(*                                                                         *)
(* A string is a sequence of one-character strings; a missing cell (NaN)   *)
(* is the one-element sequence NaN, which is no string of characters.  A   *)
(* table (DataFrame) is a record of its column names, the dtype of each    *)
(* column and its rows; a row is a function from the column names to the   *)
(* cells.                                                                  *)
(***************************************************************************)
EXTENDS Integers, Sequences, FiniteSets, TLC

VARIABLES
    df,                      \* argument: the facility table
    cities_df,               \* argument: the reference table (Stadt, Bundesland)
    df_city_column,          \* argument: name of the city column of df
    pc,                      \* position in merge_with_bundesland
    df_enhanced,             \* local: the copy that is enriched
    cities_clean,            \* local: copy of cities_df with Stadt_clean
    city_bundesland_mapping, \* local: dict Stadt_clean -> Bundesland
    unmatched_idx,           \* local: df_enhanced[unmatched_mask].index
    pos,                     \* local: how many entries of unmatched_idx the loop has visited
    fuzzy_log,               \* the "Fuzzy matched" debug lines, with best_score
    stats,                   \* the statistics logged at the end (none, or one record)
    exc,                     \* the exception caught by the except clause ("" if none)
    returned,                \* the value returned (none, or one table)
    other,                   \* the frame of a second call running at the same time
    files,                   \* the data files the application loads
    data,                    \* load_all_data's result, filled kind by kind
    filtered,                \* create_bundesland_maps: the filtered sets, per federal state
    app_pc,                  \* position in ParksVisualizationApp.run
    session_state,           \* st.session_state of the dashboard
    area_range,              \* the area range the dashboard's last run passed on
    widget_identity,         \* how the installed Streamlit identifies a keyed widget
    area_ha,                 \* the area a number of workers is asked for
    workers                  \* the numbers the two calculations returned

vars == <<df, cities_df, df_city_column, pc, df_enhanced, cities_clean,
          city_bundesland_mapping, unmatched_idx, pos, fuzzy_log, stats, exc, returned,
          other, files, data, filtered, app_pc, session_state, area_range,
          widget_identity, area_ha, workers>>

-----------------------------------------------------------------------------
(* Bounds of the model *)

MaxFacilities == 2

MaxCities == 2

-----------------------------------------------------------------------------
(* Cells, strings *)

NaN == <<"NaN">>

None == <<"None">>

notna(v) == v # NaN

isna(v) == v = NaN

Whitespace == {" ", "\t", "\n"}

UpperCase == <<"A","B","C","D","E","F","G","H","I","J","K","L","M","N","O","P","Q",
               "R","S","T","U","V","W","X","Y","Z","Ä","Ö","Ü">>

LowerCase == <<"a","b","c","d","e","f","g","h","i","j","k","l","m","n","o","p","q",
               "r","s","t","u","v","w","x","y","z","ä","ö","ü">>

\* the lower-case letter of every upper-case letter
to_lower ==
    [c \in {UpperCase[i] : i \in 1..Len(UpperCase)} |->
        LowerCase[CHOOSE i \in 1..Len(UpperCase) : UpperCase[i] = c]]

lower_char(c) == IF c \in DOMAIN to_lower THEN to_lower[c] ELSE c

lower(s) == [i \in 1..Len(s) |-> lower_char(s[i])]

SetMin(S) == CHOOSE m \in S : \A k \in S : m <= k

SetMax(S) == CHOOSE m \in S : \A k \in S : m >= k

lstrip(s) ==
    LET kept == {i \in 1..Len(s) : s[i] \notin Whitespace}
    IN  IF kept = {} THEN <<>> ELSE SubSeq(s, SetMin(kept), Len(s))

strip(s) ==
    LET kept == {i \in 1..Len(s) : s[i] \notin Whitespace}
    IN  IF kept = {} THEN <<>> ELSE SubSeq(s, SetMin(kept), SetMax(kept))

\* Series.str.strip().str.lower(), on one cell: a missing cell stays missing
str_strip_lower(v) == IF isna(v) THEN NaN ELSE lower(strip(v))

\* set(s): the distinct characters of a string
set(s) == {s[i] : i \in 1..Len(s)}

max(a, b) == IF a >= b THEN a ELSE b

-----------------------------------------------------------------------------
(* Tables *)

empty(t) == t.columns = {} \/ t.rows = <<>>

column(t, c) == [i \in 1..Len(t.rows) |-> t.rows[i][c]]

fill_column(t, c, cells) ==
    [columns |-> t.columns \cup {c},
     dtypes  |-> [k \in t.columns \cup {c} |-> IF k = c THEN "object" ELSE t.dtypes[k]],
     rows    |-> [i \in 1..Len(t.rows) |->
                    [k \in t.columns \cup {c} |->
                        IF k # c THEN t.rows[i][k]
                        ELSE IF c \in t.columns /\ notna(t.rows[i][c]) THEN t.rows[i][c]
                        ELSE cells[i]]]]

\* t[c] = cells: a new column is added, an existing one is overwritten
set_column(t, c, cells) ==
    [columns |-> t.columns \cup {c},
     dtypes  |-> [k \in t.columns \cup {c} |-> IF k = c THEN "object" ELSE t.dtypes[k]],
     rows    |-> [i \in 1..Len(t.rows) |->
                    [k \in t.columns \cup {c} |-> IF k = c THEN cells[i] ELSE t.rows[i][k]]]]

drop(t, c) ==
    [columns |-> t.columns \ {c},
     dtypes  |-> [k \in t.columns \ {c} |-> t.dtypes[k]],
     rows    |-> [i \in 1..Len(t.rows) |-> [k \in t.columns \ {c} |-> t.rows[i][k]]]]

\* the .str accessor works on object columns only
has_str(t, c) == t.dtypes[c] = "object"

clean_name(c) ==
    CASE c = "city" -> "city_clean"
      [] c = "stadt" -> "stadt_clean"
      [] OTHER -> "clean"

RECURSIVE unique(_)
\* Series.unique(): the distinct cells in order of first appearance (NaN included)
unique(s) ==
    IF s = <<>> THEN <<>>
    ELSE LET init == unique(SubSeq(s, 1, Len(s) - 1))
             last == s[Len(s)]
         IN  IF \E i \in 1..Len(init) : init[i] = last THEN init ELSE Append(init, last)

NoTable == [columns |-> {}, dtypes |-> <<>>, rows |-> <<>>]

-----------------------------------------------------------------------------
(* The inputs the model draws from *)

Berlin == <<"B","e","r","l","i","n">>

Muenchen_ref == <<"M","ü","n","c","h","e","n">>

Nilreb == <<"N","i","l","r","e","b">>

Blank == <<" ">>

Bayern == <<"B","a","y","e","r","n">>

BerlinAlt == <<"B","e","r","l","i","n","A","l","t">>

Hessen == <<"H","e","s","s","e","n">>

Sachsen == <<"S","a","c","h","s","e","n">>

berlin_trailing == <<"b","e","r","l","i","n"," ">>

Muenchen == <<"M","u","e","n","c","h","e","n">>

Nowhereville == <<"N","o","w","h","e","r","e","v","i","l","l","e">>

Lin == <<"L","i","n">>

\* the city cells of the facility tables
FacilityCities == {berlin_trailing, Muenchen, Nowhereville, Lin, Blank, NaN}

\* the rows of the reference tables
CityRows ==
    { [Stadt |-> Berlin,       Bundesland |-> Berlin],
      [Stadt |-> Muenchen_ref, Bundesland |-> Bayern],
      [Stadt |-> Berlin,       Bundesland |-> BerlinAlt],
      [Stadt |-> Nilreb,       Bundesland |-> Sachsen],
      [Stadt |-> NaN,          Bundesland |-> Hessen],
      [Stadt |-> Berlin,       Bundesland |-> NaN],
      [Stadt |-> Blank,        Bundesland |-> NaN] }

\* the sequences of at most n different elements of S
SeqsUpTo(S, n) ==
    {q \in UNION {[1..k -> S] : k \in 0..n} :
        \A i, j \in 1..Len(q) : i # j => q[i] # q[j]}

\* read_csv gives a column with no string in it the dtype float64; a column
\* built in memory from missing values alone may also be an object column
dtypes_of(cells) ==
    IF cells # <<>> /\ \A i \in 1..Len(cells) : isna(cells[i])
    THEN {"object", "float64"}
    ELSE {"object"}

FacilityTables ==
    { [columns |-> {"city", "area_ha"},
       dtypes  |-> [k \in {"city", "area_ha"} |-> IF k = "city" THEN d ELSE "float64"],
       rows    |-> [i \in 1..Len(cs) |-> [city |-> cs[i], area_ha |-> i]]] :
         cs \in SeqsUpTo(FacilityCities, MaxFacilities), d \in {"object", "float64"} }

CityTables ==
    { [columns |-> {"Stadt", "Bundesland"},
       dtypes  |-> [k \in {"Stadt", "Bundesland"} |-> IF k = "Stadt" THEN d ELSE "object"],
       rows    |-> rs] :
         rs \in SeqsUpTo(CityRows, MaxCities), d \in {"object", "float64"} }

well_typed(t, c) == t.dtypes[c] \in dtypes_of(column(t, c))

\* the city column asked for: the one the facility tables have, or, on the
\* smaller reference tables, one they do not have
CityColumns(cities) == IF Len(cities.rows) <= 1 THEN {"city", "stadt"} ELSE {"city"}

-----------------------------------------------------------------------------
(* The fuzzy score, lines 227-236 *)

score_jaccard(city_name, available_city) ==
    [num |-> Cardinality(set(city_name) \cap set(available_city)),
     den |-> Cardinality(set(city_name) \cup set(available_city))]

score_len(city_name, available_city) ==
    [num |-> Cardinality(set(city_name) \cap set(available_city)),
     den |-> max(Len(city_name), Len(available_city))]

score_smaller(city_name, available_city) ==
    [num |-> Cardinality(set(city_name) \cap set(available_city)),
     den |-> IF Cardinality(set(city_name)) <= Cardinality(set(available_city))
             THEN Cardinality(set(city_name)) ELSE Cardinality(set(available_city))]

\* len(set(a) & set(b)) / max(len(set(a)), len(set(b))), as a fraction
score(city_name, available_city) ==
    [num |-> Cardinality(set(city_name) \cap set(available_city)),
     den |-> max(Cardinality(set(city_name)), Cardinality(set(available_city)))]

greater_or_equal(s, t) == s.num * t.den >= t.num * s.den

\* s > t for two fractions with positive denominators
greater(s, t) == s.num * t.den > t.num * s.den

at_threshold(s) == 2 * s.num >= s.den

\* s > 0.5
above_threshold(s) == 2 * s.num > s.den

RECURSIVE find_best(_, _, _)
\* the loop over cities_clean['Stadt_clean'].unique(): best is the record of
\* best_match and best_score so far; raised is set by the division by zero
find_best(city_name, cities, best) ==
    IF cities = <<>> THEN best
    ELSE LET available_city == Head(cities)
             s == score(city_name, available_city)
         IN  IF isna(available_city) THEN find_best(city_name, Tail(cities), best)
             ELSE IF s.den = 0 THEN [best EXCEPT !.raised = TRUE]
             ELSE IF greater(s, best.best_score) /\ above_threshold(s)
                  THEN find_best(city_name, Tail(cities),
                                 [best_match |-> available_city, best_score |-> s,
                                  raised |-> FALSE])
                  ELSE find_best(city_name, Tail(cities), best)

no_match == [best_match |-> None, best_score |-> [num |-> 0, den |-> 1], raised |-> FALSE]

dict_zip_first(keys, values) ==
    [k \in {keys[i] : i \in 1..Len(keys)} |->
        values[SetMin({i \in 1..Len(keys) : keys[i] = k})]]

\* dict(zip(keys, values)): a later pair overwrites an earlier one with the same key
dict_zip(keys, values) ==
    [k \in {keys[i] : i \in 1..Len(keys)} |->
        values[SetMax({i \in 1..Len(keys) : keys[i] = k})]]

\* Series.map(dict), on one cell: a cell that is no key gives NaN; a missing
\* cell is looked up like any other, so a NaN key maps it
map(v, mapping) == IF v \in DOMAIN mapping THEN mapping[v] ELSE NaN

-----------------------------------------------------------------------------
(* merge_with_bundesland, lines 187-259 *)

\* the arguments and the locals of one call, as the call starts
call(d, col) ==
    [df |-> d, df_city_column |-> col, pc |-> "start", df_enhanced |-> NoTable,
     cities_clean |-> NoTable, city_bundesland_mapping |-> <<>>,
     unmatched_idx |-> <<>>, pos |-> 0, fuzzy_log |-> <<>>, stats |-> <<>>,
     exc |-> "", returned |-> <<>>]

\* no call
NoCall == [call(NoTable, "") EXCEPT !.pc = "none"]

only_df_empty(d, c) == empty(d)

\* line 200: df.empty or cities_df.empty
either_empty(d, c) == empty(d) \/ empty(c)

reraise(d) == <<>>

\* line 259: the except clause returns the table it was given
handler_result(d) == <<d>>

\* an exception raised inside the try block
raise(f, e) == [f EXCEPT !.exc = e, !.pc = "except"]

same_object(t) == [table |-> t, fresh |-> FALSE]

\* DataFrame.copy(): the same cells in a new object
copy(t) == [table |-> t, fresh |-> TRUE]

\* the table a name is bound to after an in-place write to what copy() gave:
\* the write reaches the original only when that is the same object
original_after(original, written) == IF copy(original).fresh THEN original ELSE written

\* lines 200-202
empty_inputs(f) == [f EXCEPT !.returned = <<f.df>>, !.pc = "done"]

\* lines 205-210
clean_city_names(f, cities) ==
    LET col == f.df_city_column
        enhanced == set_column(copy(f.df).table, clean_name(col),
                               [i \in 1..Len(f.df.rows) |->
                                   str_strip_lower(f.df.rows[i][col])])
        cleaned == set_column(copy(cities).table, "Stadt_clean",
                              [i \in 1..Len(cities.rows) |->
                                  str_strip_lower(cities.rows[i]["Stadt"])])
        written == [f EXCEPT !.df_enhanced = enhanced,
                             !.df = original_after(f.df, enhanced)]
    IN  IF col \notin f.df.columns
        THEN raise([f EXCEPT !.df_enhanced = f.df], "KeyError")
        ELSE IF ~ has_str(f.df, col)
        THEN raise([f EXCEPT !.df_enhanced = f.df], "AttributeError")
        ELSE IF "Stadt" \notin cities.columns
        THEN raise([written EXCEPT !.cities_clean = cities], "KeyError")
        ELSE IF ~ has_str(cities, "Stadt")
        THEN raise([written EXCEPT !.cities_clean = cities], "AttributeError")
        ELSE [written EXCEPT !.cities_clean = cleaned, !.pc = "mapping"]

\* the reference table after lines 209-210 of the call in frame f
reference_after(f, cities) ==
    IF f.pc = "start" /\ ~ either_empty(f.df, cities)
       /\ clean_city_names(f, cities).pc = "mapping"
    THEN original_after(cities, clean_city_names(f, cities).cities_clean)
    ELSE cities

\* line 213
create_mapping(f) ==
    IF "Bundesland" \notin f.cities_clean.columns
    THEN raise(f, "KeyError")
    ELSE [f EXCEPT !.city_bundesland_mapping =
                       dict_zip(column(f.cities_clean, "Stadt_clean"),
                                column(f.cities_clean, "Bundesland")),
                   !.pc = "map"]

every_index(t) == [i \in 1..Len(t.rows) |-> i]

\* the rows of t whose bundesland is missing, in row order
isna_index(t) ==
    LET RECURSIVE upto(_)
        upto(n) == IF n = 0 THEN <<>>
                   ELSE IF isna(t.rows[n]["bundesland"]) THEN Append(upto(n - 1), n)
                   ELSE upto(n - 1)
    IN  upto(Len(t.rows))

\* lines 216-221: the exact pass and the mask of what it left unmatched
map_bundesland(f) ==
    LET mapped == set_column(f.df_enhanced, "bundesland",
                      [i \in 1..Len(f.df_enhanced.rows) |->
                          map(f.df_enhanced.rows[i][clean_name(f.df_city_column)],
                              f.city_bundesland_mapping)])
    IN  [f EXCEPT !.df_enhanced = mapped,
                  !.df = original_after(f.df, mapped),
                  !.unmatched_idx = isna_index(mapped),
                  !.pos = 0,
                  !.pc = "fuzzy"]

\* best_match is truthy: not None and not the empty string
truthy(best_match) == best_match # None /\ best_match # <<>>

\* lines 223-240: one round of the loop over the unmatched rows
fuzzy_match(f) ==
    LET idx == f.unmatched_idx[f.pos + 1]
        city_name == f.df_enhanced.rows[idx][clean_name(f.df_city_column)]
        best == find_best(city_name, unique(column(f.cities_clean, "Stadt_clean")),
                          no_match)
        bundesland == f.city_bundesland_mapping[best.best_match]
        assigned == [f.df_enhanced EXCEPT !.rows[idx]["bundesland"] = bundesland]
    IN  IF isna(city_name)
        THEN [f EXCEPT !.pos = f.pos + 1]
        ELSE IF best.raised
        THEN raise(f, "ZeroDivisionError")
        ELSE IF truthy(best.best_match)
        THEN [f EXCEPT !.df_enhanced = assigned,
                       !.df = original_after(f.df, assigned),
                       !.fuzzy_log = Append(f.fuzzy_log,
                                            [idx |-> idx, city_name |-> city_name,
                                             best_match |-> best.best_match,
                                             best_score |-> best.best_score,
                                             bundesland |-> bundesland]),
                       !.pos = f.pos + 1]
        ELSE [f EXCEPT !.pos = f.pos + 1]

SampleSize == 5

uncapped(s, n) == s

\* s[:n]
first_n(s, n) == SubSeq(s, 1, IF Len(s) < n THEN Len(s) ELSE n)

\* lines 243-255: drop the temporary column, log the statistics, return
log_statistics(f) ==
    LET dropped == drop(f.df_enhanced, clean_name(f.df_city_column))
        total_rows == Len(dropped.rows)
        matched_rows == Cardinality({i \in 1..total_rows :
                                        notna(dropped.rows[i]["bundesland"])})
        missing == isna_index(dropped)
        unmatched_cities ==
            unique([k \in 1..Len(missing) |-> dropped.rows[missing[k]][f.df_city_column]])
    IN  [f EXCEPT !.df_enhanced = dropped,
                  !.stats = <<[total_rows |-> total_rows,
                               matched_rows |-> matched_rows,
                               unmatched_cities |->
                                   IF matched_rows < total_rows
                                   THEN first_n(unmatched_cities, SampleSize)
                                   ELSE <<>>]>>,
                  !.returned = <<dropped>>,
                  !.pc = "done"]

\* lines 257-259
handle_exception(f) == [f EXCEPT !.returned = handler_result(f.df), !.pc = "done"]

\* the next block of statements of the call in frame f
step(f, cities) ==
    CASE f.pc = "start" /\ either_empty(f.df, cities) -> empty_inputs(f)
      [] f.pc = "start" /\ ~ either_empty(f.df, cities) -> clean_city_names(f, cities)
      [] f.pc = "mapping" -> create_mapping(f)
      [] f.pc = "map" -> map_bundesland(f)
      [] f.pc = "fuzzy" /\ f.pos < Len(f.unmatched_idx) -> fuzzy_match(f)
      [] f.pc = "fuzzy" /\ f.pos = Len(f.unmatched_idx) -> log_statistics(f)
      [] f.pc = "except" -> handle_exception(f)

RECURSIVE run(_, _)
\* the call in frame f, run to its return with nothing else running
run(f, cities) ==
    IF f.pc = "done" THEN f ELSE run(step(f, cities), reference_after(f, cities))

\* the table a call returns
merge_with_bundesland(d, cities, col) == run(call(d, col), cities).returned[1]

-----------------------------------------------------------------------------
(* One call, statement block by statement block *)

\* the application around the call
app == <<files, data, filtered, app_pc>>

\* the dashboard
ui == <<session_state, area_range, widget_identity>>

\* the workforce calculations
calc == <<area_ha, workers>>

\* the state outside the call
outside == <<other, app, ui, calc>>

\* the dashboard is not running
no_session ==
    /\ session_state = <<>>
    /\ area_range = <<>>
    /\ widget_identity = "none"

\* no number of workers is asked for
no_calc ==
    /\ area_ha = [kind |-> "float", tenths |-> 0]
    /\ workers = <<>>

\* the call is not run by the application
no_app ==
    /\ files = <<>>
    /\ data = <<>>
    /\ filtered = <<>>
    /\ app_pc = "none"

Init ==
    /\ df \in FacilityTables
    /\ well_typed(df, "city")
    /\ cities_df \in CityTables
    /\ well_typed(cities_df, "Stadt")
    /\ df_city_column \in CityColumns(cities_df)
    /\ pc = "start"
    /\ df_enhanced = NoTable
    /\ cities_clean = NoTable
    /\ city_bundesland_mapping = <<>>
    /\ unmatched_idx = <<>>
    /\ pos = 0
    /\ fuzzy_log = <<>>
    /\ stats = <<>>
    /\ exc = ""
    /\ returned = <<>>
    /\ other = NoCall
    /\ no_app
    /\ no_session
    /\ no_calc

\* the frame of the call
frame ==
    [df |-> df, df_city_column |-> df_city_column, pc |-> pc,
     df_enhanced |-> df_enhanced, cities_clean |-> cities_clean,
     city_bundesland_mapping |-> city_bundesland_mapping,
     unmatched_idx |-> unmatched_idx, pos |-> pos, fuzzy_log |-> fuzzy_log,
     stats |-> stats, exc |-> exc, returned |-> returned]

\* the call goes on in frame f
becomes(f) ==
    /\ df' = f.df
    /\ df_city_column' = f.df_city_column
    /\ pc' = f.pc
    /\ df_enhanced' = f.df_enhanced
    /\ cities_clean' = f.cities_clean
    /\ city_bundesland_mapping' = f.city_bundesland_mapping
    /\ unmatched_idx' = f.unmatched_idx
    /\ pos' = f.pos
    /\ fuzzy_log' = f.fuzzy_log
    /\ stats' = f.stats
    /\ exc' = f.exc
    /\ returned' = f.returned

EmptyInputs ==
    /\ pc = "start"
    /\ either_empty(df, cities_df)
    /\ becomes(empty_inputs(frame))
    /\ UNCHANGED <<cities_df, outside>>

CleanCityNames ==
    /\ pc = "start"
    /\ ~ either_empty(df, cities_df)
    /\ becomes(clean_city_names(frame, cities_df))
    /\ cities_df' = reference_after(frame, cities_df)
    /\ UNCHANGED outside

CreateMapping ==
    /\ pc = "mapping"
    /\ becomes(create_mapping(frame))
    /\ UNCHANGED <<cities_df, outside>>

MapBundesland ==
    /\ pc = "map"
    /\ becomes(map_bundesland(frame))
    /\ UNCHANGED <<cities_df, outside>>

FuzzyMatch ==
    /\ pc = "fuzzy"
    /\ pos < Len(unmatched_idx)
    /\ becomes(fuzzy_match(frame))
    /\ UNCHANGED <<cities_df, outside>>

LogStatistics ==
    /\ pc = "fuzzy"
    /\ pos = Len(unmatched_idx)
    /\ becomes(log_statistics(frame))
    /\ UNCHANGED <<cities_df, outside>>

HandleException ==
    /\ pc = "except"
    /\ becomes(handle_exception(frame))
    /\ UNCHANGED <<cities_df, outside>>

Next ==
    \/ EmptyInputs
    \/ CleanCityNames
    \/ CreateMapping
    \/ MapBundesland
    \/ FuzzyMatch
    \/ LogStatistics
    \/ HandleException

Spec == Init /\ [][Next]_vars

-----------------------------------------------------------------------------
(* The vocabulary of the properties *)

rows_of(t) == 1..Len(t.rows)

\* both tables have rows and the city column exists: the matching can run
resolvable == ~ empty(df) /\ ~ empty(cities_df) /\ df_city_column \in df.columns

\* the call ran to its end and logged its statistics
completed == pc = "done" /\ stats # <<>>

normalized_city(i) == str_strip_lower(df.rows[i][df_city_column])

normalized_name(j) == str_strip_lower(cities_df.rows[j]["Stadt"])

reference_names == {normalized_name(j) : j \in rows_of(cities_df)} \ {NaN}

\* the region of the latest reference row with this normalized name
mapped_region(name) ==
    cities_df.rows[SetMax({j \in rows_of(cities_df) : normalized_name(j) = name})]["Bundesland"]

\* the region of record i in the table the call returned (NaN when it has none)
region_of(i) ==
    IF "bundesland" \in returned[1].columns THEN returned[1].rows[i]["bundesland"] ELSE NaN

shared(a, b) == Cardinality(set(a) \cap set(b))

larger(a, b) == max(Cardinality(set(a)), Cardinality(set(b)))

fuzzy_matched(i) == \E k \in 1..Len(fuzzy_log) : fuzzy_log[k].idx = i

\* a data-quality problem of record i: no city, an empty city, or no
\* reference name above the threshold
problematic(i) ==
    \/ isna(normalized_city(i))
    \/ normalized_city(i) = <<>>
    \/ \A n \in reference_names :
          2 * shared(normalized_city(i), n) <= larger(normalized_city(i), n)

-----------------------------------------------------------------------------
(* C1 *)

\* C1: a facility whose normalized city is the normalized name of a reference
\* row ends with the region the mapping holds for that name (the one the
\* exact pass gave it); the fuzzy pass does not replace it.
C1_ExactMatchPriority ==
    completed =>
        \A i \in rows_of(df) :
            normalized_city(i) \in reference_names =>
                region_of(i) = mapped_region(normalized_city(i))

-----------------------------------------------------------------------------
(* C2 *)

\* C2: when the call ends, every assignment the fuzzy pass made has a score
\* strictly above 0.5 between the facility's normalized city and the chosen
\* reference name, and a record the pass visited whose best score is 0.5 or
\* less got no assignment.
C2_FuzzyThreshold ==
    pc = "done" =>
    /\ \A k \in 1..Len(fuzzy_log) :
          LET e == fuzzy_log[k]
          IN  /\ e.city_name = normalized_city(e.idx)
              /\ e.best_match \in reference_names
              /\ e.best_score.num = shared(e.city_name, e.best_match)
              /\ e.best_score.den = larger(e.city_name, e.best_match)
              /\ 2 * shared(e.city_name, e.best_match) > larger(e.city_name, e.best_match)
    /\ \A p \in 1..pos :
          LET i == unmatched_idx[p]
          IN  (notna(normalized_city(i)) /\ problematic(i)) =>
                  /\ ~ fuzzy_matched(i)
                  /\ isna(df_enhanced.rows[i]["bundesland"])

\* a finished call with a fuzzy assignment and with a record whose best score
\* is exactly 0.5
C2_Witness ==
    /\ completed
    /\ fuzzy_log # <<>>
    /\ \E i \in rows_of(df) :
          /\ notna(normalized_city(i))
          /\ problematic(i)
          /\ \E n \in reference_names :
                /\ larger(normalized_city(i), n) > 0
                /\ 2 * shared(normalized_city(i), n) = larger(normalized_city(i), n)
          /\ isna(region_of(i))

-----------------------------------------------------------------------------
(* C3 *)

\* C3: a facility with a non-empty normalized city that is no reference name,
\* for which some reference name scores above 0.5, ends with a region, the
\* mapped region of a reference name of maximal score.
C3_FuzzyCompleteness ==
    completed =>
        \A i \in rows_of(df) :
            LET c == normalized_city(i)
            IN  ( /\ notna(c)
                  /\ c # <<>>
                  /\ c \notin reference_names
                  /\ ~ problematic(i) ) =>
                    /\ notna(region_of(i))
                    /\ \E n \in reference_names :
                          /\ region_of(i) = mapped_region(n)
                          /\ \A m \in reference_names :
                                shared(c, n) * larger(c, m) >= shared(c, m) * larger(c, n)

-----------------------------------------------------------------------------
(* C4 *)

\* the records the exact pass gave a region: all but those announced in
\* "Attempting fuzzy matching for N unmatched cities"
exactMatches == Len(df.rows) - Len(unmatched_idx)

\* the records the fuzzy pass accepted a match for ("Fuzzy matched ...")
fuzzyMatches == Len(fuzzy_log)

\* the records reported without a region
unmatched == stats[1].total_rows - stats[1].matched_rows

\* C4: in a finished call every record is counted once: exact matches plus
\* fuzzy matches plus unmatched records is the number of input records.
C4_Conservation ==
    completed => exactMatches + fuzzyMatches + unmatched = Len(df.rows)

-----------------------------------------------------------------------------
(* C5 *)

\* C5: with an empty facility table or an empty reference table the call
\* returns the facility table it was given, matches nothing and raises nothing.
C5_NoOpOnEmptyInputs ==
    (df.rows = <<>> \/ cities_df.rows = <<>>) =>
        /\ pc \in {"start", "done"}
        /\ exc = ""
        /\ df_enhanced = NoTable
        /\ cities_clean = NoTable
        /\ city_bundesland_mapping = <<>>
        /\ fuzzy_log = <<>>
        /\ stats = <<>>
        /\ pc = "done" => returned = <<df>>

\* a call on facilities with an empty reference table has returned
C5_Witness ==
    /\ pc = "done"
    /\ df.rows # <<>>
    /\ cities_df.rows = <<>>
    /\ returned = <<df>>

-----------------------------------------------------------------------------
(* C6 *)

missing_city_field == ~ empty(df) /\ ~ empty(cities_df) /\ df_city_column \notin df.columns

-----------------------------------------------------------------------------
(* C7 *)

\* two reference rows with the same normalized name and different regions
duplicate_name(n) ==
    \E j, k \in rows_of(cities_df) :
        /\ j < k
        /\ normalized_name(j) = n
        /\ normalized_name(k) = n
        /\ cities_df.rows[j]["Bundesland"] # cities_df.rows[k]["Bundesland"]

\* C7: the mapping, once built, holds for every reference name the region of
\* the latest row with that normalized name; the exact pass gives a record
\* with that name that region, and a fuzzy match to that name assigns it.
C7_LastWriteWins ==
    /\ pc = "map" =>
          \A n \in reference_names :
              /\ n \in DOMAIN city_bundesland_mapping
              /\ city_bundesland_mapping[n] = mapped_region(n)
    /\ (pc = "fuzzy" /\ pos = 0) =>
          \A i \in rows_of(df) :
              normalized_city(i) \in reference_names =>
                  df_enhanced.rows[i]["bundesland"] = mapped_region(normalized_city(i))
    /\ pc = "done" =>
          \A k \in 1..Len(fuzzy_log) :
              /\ fuzzy_log[k].bundesland = mapped_region(fuzzy_log[k].best_match)
              /\ df_enhanced.rows[fuzzy_log[k].idx]["bundesland"] = fuzzy_log[k].bundesland

\* a finished call on a reference table with a duplicated name: one record
\* matched that name exactly, another was fuzzy-matched to it, and both have
\* the later row's region
C7_Witness ==
    /\ completed
    /\ \E n \in reference_names :
          /\ duplicate_name(n)
          /\ notna(mapped_region(n))
          /\ \E i \in rows_of(df) :
                normalized_city(i) = n /\ region_of(i) = mapped_region(n)
          /\ \E k \in 1..Len(fuzzy_log) :
                /\ fuzzy_log[k].best_match = n
                /\ region_of(fuzzy_log[k].idx) = mapped_region(n)

-----------------------------------------------------------------------------
(* C8 *)

\* C8: a facility whose city is missing, or empty once normalized, has no
\* region in the table a finished call returns.
C8_NullOrEmptyCityUnmatched ==
    completed =>
        \A i \in rows_of(df) :
            (isna(normalized_city(i)) \/ normalized_city(i) = <<>>) =>
                /\ isna(region_of(i))
                /\ ~ fuzzy_matched(i)

-----------------------------------------------------------------------------
(* C9 *)

\* C9: a record with a data-quality problem does not change what the others
\* get: a record whose normalized city is a reference name with a region has
\* that region in the returned table, whatever the other records are.
C9_PerRecordDegradation ==
    (pc = "done" /\ resolvable) =>
        \A i \in rows_of(df) :
            ( /\ normalized_city(i) \in reference_names
              /\ notna(mapped_region(normalized_city(i)))
              /\ \E k \in rows_of(df) : k # i /\ problematic(k) ) =>
                region_of(i) = mapped_region(normalized_city(i))

-----------------------------------------------------------------------------
(* C10 *)

\* the reference table of the scenarios: Berlin -> Berlin, München -> Bayern
scenario_cities ==
    <<[Stadt |-> Berlin, Bundesland |-> Berlin],
      [Stadt |-> Muenchen_ref, Bundesland |-> Bayern]>>

scenario(city) ==
    /\ pc = "done"
    /\ df_city_column = "city"
    /\ cities_df.rows = scenario_cities
    /\ \E i \in rows_of(df) : df.rows[i]["city"] = city

sample_unmatched == IF stats = <<>> THEN <<>> ELSE stats[1].unmatched_cities

listed(city) == \E k \in 1..Len(sample_unmatched) : sample_unmatched[k] = city

\* C10 as stated: in the scenario "Nowhereville" gets no region and is listed
\* among the sample unmatched names.
C10_NowherevilleUnmatched ==
    scenario(Nowhereville) =>
        /\ \A i \in rows_of(df) : df.rows[i]["city"] = Nowhereville => isna(region_of(i))
        /\ listed(Nowhereville)

\* C10, amended: in the scenario "Nowhereville" scores 5/9 against "berlin"
\* (3/9 against "münchen"), which is above 0.5: it is fuzzy-matched to the
\* region Berlin and is not listed among the sample unmatched names.
C10_NowherevilleFuzzyBerlin ==
    scenario(Nowhereville) =>
        /\ \A i \in rows_of(df) :
              df.rows[i]["city"] = Nowhereville =>
                  /\ region_of(i) = Berlin
                  /\ \E k \in 1..Len(fuzzy_log) :
                        /\ fuzzy_log[k].idx = i
                        /\ fuzzy_log[k].best_match = lower(Berlin)
                        /\ fuzzy_log[k].best_score = [num |-> 5, den |-> 9]
        /\ shared(lower(Nowhereville), lower(Muenchen_ref)) = 3
        /\ ~ listed(Nowhereville)

\* the scenario has run with a "Nowhereville" record
C10_Witness ==
    scenario(Nowhereville) /\ completed

-----------------------------------------------------------------------------
(* C11 *)

\* the fuzzy assignment made to record i, if one was made
fuzzy_entry(i) == {fuzzy_log[k] : k \in {k \in 1..Len(fuzzy_log) : fuzzy_log[k].idx = i}}

\* C11 as stated: in the scenario the larger character set of "muenchen" and
\* "münchen" has 7 characters, "Muenchen" is fuzzy-matched with the score 5/7
\* and gets the region Bayern.
C11_MuenchenFiveSevenths ==
    scenario(Muenchen) =>
        /\ larger(lower(Muenchen), lower(Muenchen_ref)) = 7
        /\ \A i \in rows_of(df) :
              df.rows[i]["city"] = Muenchen =>
                  /\ region_of(i) = Bayern
                  /\ \E e \in fuzzy_entry(i) : e.best_score = [num |-> 5, den |-> 7]

\* C11, amended: in the scenario "muenchen" and "münchen" share 5 characters
\* and have 6 distinct characters each, so the score is 5/6 (2/6 against
\* "berlin"): "Muenchen" is fuzzy-matched to "münchen" and gets the region
\* Bayern.
C11_MuenchenFiveSixths ==
    scenario(Muenchen) =>
        /\ shared(lower(Muenchen), lower(Muenchen_ref)) = 5
        /\ larger(lower(Muenchen), lower(Muenchen_ref)) = 6
        /\ \A i \in rows_of(df) :
              df.rows[i]["city"] = Muenchen =>
                  /\ region_of(i) = Bayern
                  /\ \E e \in fuzzy_entry(i) :
                        /\ e.city_name = lower(Muenchen)
                        /\ e.best_match = lower(Muenchen_ref)
                        /\ e.best_score = [num |-> 5, den |-> 6]
                        /\ e.bundesland = Bayern

\* the scenario has run with a "Muenchen" record, which has the region Bayern
C11_Witness ==
    /\ scenario(Muenchen)
    /\ completed
    /\ \E i \in rows_of(df) : df.rows[i]["city"] = Muenchen /\ region_of(i) = Bayern

-----------------------------------------------------------------------------
(* C12 *)

\* the first reference row with this normalized name
first_row(n) == SetMin({j \in rows_of(cities_df) : normalized_name(j) = n})

\* reference name n scores at least as high against c as reference name m
scores_at_least(c, n, m) == shared(c, n) * larger(c, m) >= shared(c, m) * larger(c, n)

\* the reference names of the highest score against c
top_names(c) == {n \in reference_names : \A m \in reference_names : scores_at_least(c, n, m)}

\* C12: the fuzzy choice is a function of the inputs: the name a record was
\* fuzzy-matched to is, of the reference names with the highest score against
\* the record's normalized city, the one that appears first in the reference
\* table, and the record has the region the mapping holds for that name.
C12_FirstOfTiedNames ==
    pc = "done" =>
        \A k \in 1..Len(fuzzy_log) :
            LET e == fuzzy_log[k]
            IN  /\ e.best_match \in top_names(e.city_name)
                /\ \A n \in top_names(e.city_name) : first_row(e.best_match) <= first_row(n)
                /\ df_enhanced.rows[e.idx]["bundesland"] = mapped_region(e.best_match)

\* a finished call in which a record was fuzzy-matched while a second
\* reference name, later in the table, had the same highest score
C12_Witness ==
    /\ completed
    /\ \E k \in 1..Len(fuzzy_log) :
          \E n \in top_names(fuzzy_log[k].city_name) :
              /\ n # fuzzy_log[k].best_match
              /\ first_row(fuzzy_log[k].best_match) < first_row(n)
              /\ notna(fuzzy_log[k].bundesland)

-----------------------------------------------------------------------------
(* C13 *)

occurs(ch, s) == \E i \in 1..Len(s) : s[i] = ch

\* the characters that occur in both names, each counted once
in_both(a, b) == Cardinality({ch \in set(a) \cup set(b) : occurs(ch, a) /\ occurs(ch, b)})

\* the number of distinct characters of a name
distinct(a) == Cardinality({ch \in set(a) : occurs(ch, a)})

reversed(s) == [i \in 1..Len(s) |-> s[Len(s) + 1 - i]]

\* C13: for a non-empty normalized city and a non-empty reference name the
\* score is the number of distinct characters in both over the larger of the
\* two numbers of distinct characters; writing a name backwards or twice over
\* does not change it; the scores the fuzzy pass logged are of that form.
C13_ScoreDefinition ==
    /\ pc = "map" =>
          \A i \in rows_of(df) : \A n \in reference_names :
              LET c == normalized_city(i)
              IN  (notna(c) /\ c # <<>> /\ n # <<>>) =>
                      /\ score(c, n).num = in_both(c, n)
                      /\ score(c, n).den = max(distinct(c), distinct(n))
                      /\ score(reversed(c), n) = score(c, n)
                      /\ score(c, reversed(n)) = score(c, n)
                      /\ score(c \o c, n) = score(c, n)
                      /\ score(c, n \o n) = score(c, n)
    /\ pc = "done" =>
          \A k \in 1..Len(fuzzy_log) :
              LET e == fuzzy_log[k]
              IN  /\ e.best_score.num = in_both(e.city_name, e.best_match)
                  /\ e.best_score.den = max(distinct(e.city_name), distinct(e.best_match))

\* a finished call that fuzzy-matched a city with repeated characters to a
\* name with which it shares some but not all of its characters
C13_Witness ==
    /\ completed
    /\ \E k \in 1..Len(fuzzy_log) :
          LET e == fuzzy_log[k]
          IN  /\ Len(e.city_name) > distinct(e.city_name)
              /\ distinct(e.city_name) # distinct(e.best_match)
              /\ 0 < e.best_score.num
              /\ e.best_score.num < e.best_score.den

-----------------------------------------------------------------------------
(* C14 *)

\* reference row j has a name and a region
well_formed(j) ==
    notna(cities_df.rows[j]["Stadt"]) /\ notna(cities_df.rows[j]["Bundesland"])

well_formed_names == {normalized_name(j) : j \in {j \in rows_of(cities_df) : well_formed(j)}}

\* the region of the latest well-formed reference row with this normalized name
well_formed_region(n) ==
    cities_df.rows[SetMax({j \in rows_of(cities_df) :
                              well_formed(j) /\ normalized_name(j) = n})]["Bundesland"]

\* C14: a reference row without a name or without a region is left out of
\* the mapping: the mapping holds the well-formed rows' names with the region
\* of the latest well-formed row of each, a record whose normalized city is
\* such a name gets that region, and a fuzzy match is to such a name.
C14_MalformedRowsSkipped ==
    /\ pc = "map" =>
          /\ DOMAIN city_bundesland_mapping = well_formed_names
          /\ \A n \in well_formed_names : city_bundesland_mapping[n] = well_formed_region(n)
    /\ completed =>
          /\ \A i \in rows_of(df) :
                normalized_city(i) \in well_formed_names =>
                    region_of(i) = well_formed_region(normalized_city(i))
          /\ \A k \in 1..Len(fuzzy_log) :
                /\ fuzzy_log[k].best_match \in well_formed_names
                /\ notna(fuzzy_log[k].bundesland)

-----------------------------------------------------------------------------
(* C15 *)

MaxSampleRows == 8

Ulm == <<"U","l","m">>

Hof == <<"H","o","f">>

Trier == <<"T","r","i","e","r">>

Kiel == <<"K","i","e","l">>

Bonn == <<"B","o","n","n">>

\* city cells of a longer facility table: names that score 0.5 or less against
\* "berlin", some of them twice, a missing city and a city that is matched
SampleCities == <<Ulm, Lin, Ulm, Hof, berlin_trailing, Trier, NaN, Kiel, Lin, Bonn>>

\* the k-th smallest element of a set of numbers
kth(P, k) == CHOOSE j \in P : Cardinality({x \in P : x < j}) = k - 1

\* the facility tables whose city cells are SampleCities with some cells left out
SampleTables ==
    { [columns |-> {"city", "area_ha"},
       dtypes  |-> [c \in {"city", "area_ha"} |-> IF c = "city" THEN d ELSE "float64"],
       rows    |-> [k \in 1..Cardinality(P) |->
                       [city |-> SampleCities[kth(P, k)], area_ha |-> k]]] :
         P \in {Q \in SUBSET (1..Len(SampleCities)) : Cardinality(Q) <= MaxSampleRows},
         d \in {"object", "float64"} }

InitSample ==
    /\ df \in SampleTables
    /\ well_typed(df, "city")
    /\ cities_df = [columns |-> {"Stadt", "Bundesland"},
                    dtypes  |-> [c \in {"Stadt", "Bundesland"} |-> "object"],
                    rows    |-> <<[Stadt |-> Berlin, Bundesland |-> Berlin]>>]
    /\ df_city_column = "city"
    /\ pc = "start"
    /\ df_enhanced = NoTable
    /\ cities_clean = NoTable
    /\ city_bundesland_mapping = <<>>
    /\ unmatched_idx = <<>>
    /\ pos = 0
    /\ fuzzy_log = <<>>
    /\ stats = <<>>
    /\ exc = ""
    /\ returned = <<>>
    /\ other = NoCall
    /\ no_app
    /\ no_session
    /\ no_calc

\* the call on the longer facility tables
SpecSample == InitSample /\ [][Next]_vars

\* the records of the returned table without a region, in record order
unmatched_records ==
    LET U == {i \in rows_of(df) : isna(region_of(i))}
    IN  [k \in 1..Cardinality(U) |-> kth(U, k)]

raw_city(i) == df.rows[i][df_city_column]

\* the first record without a region that has this raw city
first_unmatched(v) == SetMin({i \in rows_of(df) : isna(region_of(i)) /\ raw_city(i) = v})

unmatched_names == {raw_city(unmatched_records[k]) : k \in 1..Len(unmatched_records)}

\* C15 as stated: the sample is the raw city names of the first
\* min(5, unmatched) records without a region, one entry per record.
C15_SampleOfFirstUnmatched ==
    completed =>
        /\ Len(sample_unmatched) <= SampleSize
        /\ Len(sample_unmatched) = IF Len(unmatched_records) < SampleSize
                                   THEN Len(unmatched_records) ELSE SampleSize
        /\ \A k \in 1..Len(sample_unmatched) :
              sample_unmatched[k] = raw_city(unmatched_records[k])

\* C15, amended: the sample has at most 5 entries and no entry twice: it is
\* the distinct raw city values of the records without a region, in the order
\* of their first such record, cut after the fifth.
C15_SampleOfDistinctNames ==
    completed =>
        /\ Len(sample_unmatched) <= SampleSize
        /\ Len(sample_unmatched) = IF Cardinality(unmatched_names) < SampleSize
                                   THEN Cardinality(unmatched_names) ELSE SampleSize
        /\ \A k \in 1..Len(sample_unmatched) : sample_unmatched[k] \in unmatched_names
        /\ \A j, k \in 1..Len(sample_unmatched) :
              j < k => first_unmatched(sample_unmatched[j]) < first_unmatched(sample_unmatched[k])
        /\ \A v \in unmatched_names :
              listed(v) \/ \A k \in 1..Len(sample_unmatched) :
                               first_unmatched(sample_unmatched[k]) < first_unmatched(v)

\* a finished call with more than five distinct unmatched names, one of the
\* first five on two records, and a matched record among them
C15_Witness ==
    /\ completed
    /\ Cardinality(unmatched_names) > SampleSize
    /\ Len(sample_unmatched) = SampleSize
    /\ \E i, j \in rows_of(df) :
          i < j /\ raw_city(i) = raw_city(j) /\ listed(raw_city(i)) /\ isna(region_of(j))
    /\ \E i \in rows_of(df) : notna(region_of(i))

-----------------------------------------------------------------------------
(* C16 *)

MaxNameLen == 3

NameCharacters == {" ", "a", "B", "Ü"}

\* every string of at most MaxNameLen of these characters, and the missing cell
NameCells == UNION {[1..k -> NameCharacters] : k \in 0..MaxNameLen} \cup {NaN}

\* the reference names that go with the facility city s: s itself and the
\* shortest strings
NameCellsFor(s) == {s} \cup {t \in NameCells : notna(t) /\ Len(t) <= 1}

InitNormalize ==
    /\ \E s \in NameCells, d \in {"object", "float64"}, n \in 0..1 :
          \E t \in NameCellsFor(s) :
              /\ df = [columns |-> {"city", "area_ha"},
                       dtypes  |-> [c \in {"city", "area_ha"} |->
                                       IF c = "city" THEN d ELSE "float64"],
                       rows    |-> [i \in 1..n |-> [city |-> s, area_ha |-> i]]]
              /\ cities_df = [columns |-> {"Stadt", "Bundesland"},
                              dtypes  |-> [c \in {"Stadt", "Bundesland"} |-> "object"],
                              rows    |-> <<[Stadt |-> t, Bundesland |-> Bayern]>>]
    /\ well_typed(df, "city")
    /\ df_city_column = "city"
    /\ pc = "start"
    /\ df_enhanced = NoTable
    /\ cities_clean = NoTable
    /\ city_bundesland_mapping = <<>>
    /\ unmatched_idx = <<>>
    /\ pos = 0
    /\ fuzzy_log = <<>>
    /\ stats = <<>>
    /\ exc = ""
    /\ returned = <<>>
    /\ other = NoCall
    /\ no_app
    /\ no_session
    /\ no_calc

\* the call on one facility and one reference row, over all the short strings
SpecNormalize == InitNormalize /\ [][Next]_vars

\* no whitespace at either end and no upper-case letter
normal_form(c) ==
    /\ c # <<>> => (c[1] \notin Whitespace /\ c[Len(c)] \notin Whitespace)
    /\ \A k \in 1..Len(c) : c[k] \notin DOMAIN to_lower

\* C16: once lines 208 and 210 have run, every cleaned cell is what
\* normalizing the raw cell gives, on the facility side and on the reference
\* side alike; it is in normal form and normalizing it again changes nothing;
\* equal raw cells on the two sides have equal cleaned cells.
C16_NormalizationIdempotent ==
    pc = "mapping" =>
        /\ \A i \in rows_of(df) :
              LET c == df_enhanced.rows[i][clean_name(df_city_column)]
              IN  /\ c = str_strip_lower(df.rows[i][df_city_column])
                  /\ str_strip_lower(c) = c
                  /\ notna(c) => normal_form(c)
        /\ \A j \in rows_of(cities_df) :
              LET n == cities_clean.rows[j]["Stadt_clean"]
              IN  /\ n = str_strip_lower(cities_df.rows[j]["Stadt"])
                  /\ str_strip_lower(n) = n
                  /\ notna(n) => normal_form(n)
        /\ \A i \in rows_of(df) : \A j \in rows_of(cities_df) :
              df.rows[i][df_city_column] = cities_df.rows[j]["Stadt"] =>
                  df_enhanced.rows[i][clean_name(df_city_column)]
                      = cities_clean.rows[j]["Stadt_clean"]

\* lines 208 and 210 have cleaned, on both sides, a name with whitespace at
\* both ends and an upper-case letter in between
C16_Witness ==
    /\ pc = "mapping"
    /\ \E i \in rows_of(df) : \E j \in rows_of(cities_df) :
          LET s == df.rows[i][df_city_column]
          IN  /\ notna(s)
              /\ Len(s) = MaxNameLen
              /\ s[1] \in Whitespace
              /\ s[Len(s)] \in Whitespace
              /\ \E k \in 1..Len(s) : s[k] \in DOMAIN to_lower
              /\ cities_df.rows[j]["Stadt"] = s
              /\ Len(cities_clean.rows[j]["Stadt_clean"]) = 1

-----------------------------------------------------------------------------
(* C17 *)

\* columns a facility table may have besides city and area_ha
ExtraColumns == {"city_clean", "bundesland"}

SchemaCities == {berlin_trailing, Lin, NaN}

\* the cell of row i in an extra column of the input: a note kept under the
\* name city_clean, a region (v, or none) under the name bundesland
extra_cell(c, i, v) == IF c = "city_clean" THEN Hof ELSE v

\* facility tables of every schema
SchemaTables ==
    { [columns |-> {"city", "area_ha"} \cup X,
       dtypes  |-> [c \in {"city", "area_ha"} \cup X |->
                       IF c = "city" THEN d ELSE IF c = "area_ha" THEN "float64" ELSE "object"],
       rows    |-> [i \in 1..Len(cs) |->
                       [c \in {"city", "area_ha"} \cup X |->
                           IF c = "city" THEN cs[i]
                           ELSE IF c = "area_ha" THEN i
                           ELSE extra_cell(c, i, v)]]] :
         X \in SUBSET ExtraColumns, cs \in SeqsUpTo(SchemaCities, MaxFacilities),
         d \in {"object", "float64"}, v \in {Hessen, NaN} }

SchemaCityTables ==
    { [columns |-> {"Stadt", "Bundesland"},
       dtypes  |-> [c \in {"Stadt", "Bundesland"} |-> "object"],
       rows    |-> rs] :
         rs \in {<<>>, <<[Stadt |-> Berlin, Bundesland |-> Berlin]>>, scenario_cities} }

InitSchema ==
    /\ df \in SchemaTables
    /\ well_typed(df, "city")
    /\ cities_df \in SchemaCityTables
    /\ df_city_column = "city"
    /\ pc = "start"
    /\ df_enhanced = NoTable
    /\ cities_clean = NoTable
    /\ city_bundesland_mapping = <<>>
    /\ unmatched_idx = <<>>
    /\ pos = 0
    /\ fuzzy_log = <<>>
    /\ stats = <<>>
    /\ exc = ""
    /\ returned = <<>>
    /\ other = NoCall
    /\ no_app
    /\ no_session
    /\ no_calc

\* the call on facility tables of every schema
SpecSchema == InitSchema /\ [][Next]_vars

\* C17: a finished call returns as many records as it was given, in the same
\* order; every column of the input other than bundesland is in the returned
\* table with the cells it had; the only column added is bundesland.
C17_SameSequenceWithRegion ==
    completed =>
        /\ Len(returned[1].rows) = Len(df.rows)
        /\ returned[1].columns \ df.columns \subseteq {"bundesland"}
        /\ "bundesland" \in returned[1].columns
        /\ \A c \in df.columns \ {"bundesland"} :
              /\ c \in returned[1].columns
              /\ \A i \in rows_of(df) : returned[1].rows[i][c] = df.rows[i][c]

-----------------------------------------------------------------------------
(* C18 *)

\* C18: no step of the call changes the facility table or the reference
\* table the caller passed: not the empty-input return, not the cleaning,
\* the exact pass or the fuzzy pass (which write to copies), not the final
\* drop, not the except clause.
C18_Purity ==
    [][df' = df /\ cities_df' = cities_df]_vars

\* a call has returned after its fuzzy pass assigned a region, and the
\* caller's tables have neither the temporary columns nor a region column
C18_Witness ==
    /\ completed
    /\ fuzzy_log # <<>>
    /\ "bundesland" \in returned[1].columns
    /\ df.columns = {"city", "area_ha"}
    /\ cities_df.columns = {"Stadt", "Bundesland"}

-----------------------------------------------------------------------------
(* C19 *)

\* the city cells of the first call's facility tables and of the second's
FirstCities == {berlin_trailing, Muenchen, NaN}

SecondCities == {Nowhereville, Lin, Blank}

\* the facility tables with city cells from S
TablesOver(S) ==
    { [columns |-> {"city", "area_ha"},
       dtypes  |-> [k \in {"city", "area_ha"} |-> IF k = "city" THEN d ELSE "float64"],
       rows    |-> [i \in 1..Len(cs) |-> [city |-> cs[i], area_ha |-> i]]] :
         cs \in SeqsUpTo(S, MaxFacilities), d \in {"object", "float64"} }

SharedCityTables ==
    { [columns |-> {"Stadt", "Bundesland"},
       dtypes  |-> [c \in {"Stadt", "Bundesland"} |-> "object"],
       rows    |-> rs] :
         rs \in {scenario_cities,
                 <<[Stadt |-> Nilreb, Bundesland |-> Sachsen],
                   [Stadt |-> Berlin, Bundesland |-> Berlin]>>,
                 <<[Stadt |-> Berlin, Bundesland |-> Berlin],
                   [Stadt |-> Berlin, Bundesland |-> BerlinAlt]>>} }

\* two calls with their own facility tables and the same reference table
InitConcurrent ==
    /\ df \in TablesOver(FirstCities)
    /\ well_typed(df, "city")
    /\ cities_df \in SharedCityTables
    /\ df_city_column = "city"
    /\ pc = "start"
    /\ df_enhanced = NoTable
    /\ cities_clean = NoTable
    /\ city_bundesland_mapping = <<>>
    /\ unmatched_idx = <<>>
    /\ pos = 0
    /\ fuzzy_log = <<>>
    /\ stats = <<>>
    /\ exc = ""
    /\ returned = <<>>
    /\ \E d \in TablesOver(SecondCities) :
          /\ well_typed(d, "city")
          /\ other = call(d, "city")
    /\ no_app
    /\ no_session
    /\ no_calc

\* the second call runs its next block of statements
OtherStep ==
    /\ other.pc \notin {"none", "done"}
    /\ other' = step(other, cities_df)
    /\ cities_df' = reference_after(other, cities_df)
    /\ UNCHANGED <<df, df_city_column, pc, df_enhanced, cities_clean,
                   city_bundesland_mapping, unmatched_idx, pos, fuzzy_log, stats, exc,
                   returned, app, ui, calc>>

NextConcurrent == Next \/ OtherStep

SpecConcurrent == InitConcurrent /\ [][NextConcurrent]_vars

\* what the call that has returned in frame f gave its caller
result(f) == [returned |-> f.returned, stats |-> f.stats, fuzzy_log |-> f.fuzzy_log]

\* C19: however the blocks of the two calls interleave, a call that has
\* returned gave what it gives when it runs alone on its facility table and
\* the reference table, and the reference table is never written (it never
\* gets the Stadt_clean column either call computes).
C19_ConcurrentCallsIndependent ==
    /\ cities_df \in SharedCityTables
    /\ pc = "done" =>
          result(frame) = result(run(call(df, df_city_column), cities_df))
    /\ other.pc = "done" =>
          result(other) = result(run(call(other.df, other.df_city_column), cities_df))

\* both calls have returned, each after a fuzzy assignment to its own records
C19_Witness ==
    /\ completed
    /\ fuzzy_log # <<>>
    /\ other.pc = "done"
    /\ other.stats # <<>>
    /\ other.fuzzy_log # <<>>
    /\ other.df # df
    /\ other.returned # returned

-----------------------------------------------------------------------------
(* C20 *)

MaxRecords == 1

Point == <<"P","O","I","N","T">>

\* the rows of the facility files: city and geometry
FileRows ==
    { [city |-> berlin_trailing, geometry |-> Point],
      [city |-> Muenchen,        geometry |-> Point],
      [city |-> berlin_trailing, geometry |-> NaN] }

\* the facility files: the csv read by load_csv_data, lines 31-58
FileTables ==
    { [columns |-> {"city", "area_ha", "geometry"},
       dtypes  |-> [c \in {"city", "area_ha", "geometry"} |->
                       IF c = "area_ha" THEN "float64" ELSE "object"],
       rows    |-> [i \in 1..Len(rs) |->
                       [c \in {"city", "area_ha", "geometry"} |->
                           IF c = "area_ha" THEN i ELSE rs[i][c]]]] :
         rs \in SeqsUpTo(FileRows, MaxRecords) }

\* the federal states of the geometry file, column NAME_1
federal_states == <<Berlin, Bayern>>

kinds == {"parks", "cemetery", "camping"}

\* t[mask]: the rows of t whose number is in I, in their order
take(t, I) == [t EXCEPT !.rows = [k \in 1..Cardinality(I) |-> t.rows[kth(I, k)]]]

\* geometry_utils.py lines 13-33: rows without a geometry are dropped
process_geometry_column(t) ==
    IF "geometry" \notin t.columns THEN t
    ELSE take(t, {i \in 1..Len(t.rows) : notna(t.rows[i]["geometry"])})

\* geometry_utils.py lines 36-54: the rows with a valid geometry
create_geodataframe(t) ==
    IF "geometry" \notin t.columns THEN NoTable
    ELSE take(t, {i \in 1..Len(t.rows) : notna(t.rows[i]["geometry"])})

\* lines 102-116: Stadt and Bundesland are stripped
load_cities_data(t) ==
    IF empty(t) THEN NoTable
    ELSE [t EXCEPT !.rows =
             [j \in 1..Len(t.rows) |->
                 [t.rows[j] EXCEPT !["Stadt"] = IF isna(@) THEN @ ELSE strip(@),
                                   !["Bundesland"] = IF isna(@) THEN @ ELSE strip(@)]]]

possible_city_columns == <<"city", "City", "name", "Name", "stadt", "Stadt">>

last_city_column(t) ==
    LET found == {k \in 1..Len(possible_city_columns) : possible_city_columns[k] \in t.columns}
    IN  IF found = {} THEN "" ELSE possible_city_columns[SetMax(found)]

\* lines 281-285: the first of the possible city columns the table has
city_column(t) ==
    LET found == {k \in 1..Len(possible_city_columns) : possible_city_columns[k] \in t.columns}
    IN  IF found = {} THEN "" ELSE possible_city_columns[SetMin(found)]

\* lines 262-300 and 303-341: load_parks_data and load_cemetery_data
load_with_bundesland(file, cities_file) ==
    LET cities == load_cities_data(cities_file)
        loaded == process_geometry_column(file)
        gdf == create_geodataframe(loaded)
        col == city_column(loaded)
    IN  IF empty(file) THEN [df |-> NoTable, gdf |-> NoTable]
        ELSE IF empty(cities) \/ col = "" THEN [df |-> loaded, gdf |-> gdf]
        ELSE [df  |-> merge_with_bundesland(loaded, cities, col),
              gdf |-> IF empty(gdf) THEN gdf
                      ELSE merge_with_bundesland(gdf, cities, col)]

\* lines 88-100: load_camping_data
load_camping_data(file) ==
    IF empty(file) THEN [df |-> NoTable, gdf |-> NoTable]
    ELSE [df  |-> process_geometry_column(file),
          gdf |-> create_geodataframe(process_geometry_column(file))]

unfiltered_without_column(gdf, bundesland_name) ==
    IF empty(gdf) \/ "bundesland" \notin gdf.columns
    THEN gdf
    ELSE take(gdf, {i \in 1..Len(gdf.rows) : gdf.rows[i]["bundesland"] = bundesland_name})

\* main.py lines 168-180
filter_data_by_bundesland(gdf, bundesland_name) ==
    IF empty(gdf) \/ "bundesland" \notin gdf.columns
    THEN [gdf EXCEPT !.rows = <<>>]
    ELSE take(gdf, {i \in 1..Len(gdf.rows) : gdf.rows[i]["bundesland"] = bundesland_name})

\* the call's variables while the application runs it inside its loaders
no_call ==
    /\ df = NoTable
    /\ cities_df = NoTable
    /\ df_city_column = ""
    /\ pc = "none"
    /\ df_enhanced = NoTable
    /\ cities_clean = NoTable
    /\ city_bundesland_mapping = <<>>
    /\ unmatched_idx = <<>>
    /\ pos = 0
    /\ fuzzy_log = <<>>
    /\ stats = <<>>
    /\ exc = ""
    /\ returned = <<>>
    /\ other = NoCall

call_vars == <<df, cities_df, df_city_column, pc, df_enhanced, cities_clean,
               city_bundesland_mapping, unmatched_idx, pos, fuzzy_log, stats, exc,
               returned, other>>

InitPipeline ==
    /\ no_call
    /\ no_session
    /\ no_calc
    /\ \E p, c, k \in FileTables : \E cities \in SchemaCityTables :
          files = [parks |-> p, cemetery |-> c, camping |-> k, cities |-> cities]
    /\ data = <<>>
    /\ filtered = <<>>
    /\ app_pc = "load_parks"

\* main.py line 43
LoadParks ==
    /\ app_pc = "load_parks"
    /\ data' = [parks |-> load_with_bundesland(files.parks, files.cities)]
    /\ app_pc' = "load_cemetery"
    /\ UNCHANGED <<call_vars, ui, calc, files, filtered>>

\* main.py line 44
LoadCemetery ==
    /\ app_pc = "load_cemetery"
    /\ data' = [parks |-> data.parks,
                cemetery |-> load_with_bundesland(files.cemetery, files.cities)]
    /\ app_pc' = "load_camping"
    /\ UNCHANGED <<call_vars, ui, calc, files, filtered>>

\* main.py line 48
LoadCamping ==
    /\ app_pc = "load_camping"
    /\ data' = [parks |-> data.parks, cemetery |-> data.cemetery,
                camping |-> load_camping_data(files.camping)]
    /\ app_pc' = "validate"
    /\ UNCHANGED <<call_vars, ui, calc, files, filtered>>

\* main.py lines 200-202: without parks and cemeteries no map is made
Validate ==
    /\ app_pc = "validate"
    /\ app_pc' = IF empty(data.parks.df) /\ empty(data.cemetery.df) THEN "done" ELSE "filter"
    /\ UNCHANGED <<call_vars, ui, calc, files, data, filtered>>

\* main.py lines 123-134: one round of the loop over the federal states
FilterByBundesland ==
    /\ app_pc = "filter"
    /\ Len(filtered) < Len(federal_states)
    /\ LET bundesland == federal_states[Len(filtered) + 1]
       IN  filtered' = Append(filtered,
                              [bundesland |-> bundesland,
                               parks |-> filter_data_by_bundesland(data.parks.gdf, bundesland),
                               cemetery |-> filter_data_by_bundesland(data.cemetery.gdf,
                                                                      bundesland),
                               camping |-> filter_data_by_bundesland(data.camping.gdf,
                                                                     bundesland)])
    /\ UNCHANGED <<call_vars, ui, calc, files, data, app_pc>>

\* main.py line 162
ReturnMaps ==
    /\ app_pc = "filter"
    /\ Len(filtered) = Len(federal_states)
    /\ app_pc' = "done"
    /\ UNCHANGED <<call_vars, ui, calc, files, data, filtered>>

NextPipeline ==
    \/ LoadParks
    \/ LoadCemetery
    \/ LoadCamping
    \/ Validate
    \/ FilterByBundesland
    \/ ReturnMaps

\* ParksVisualizationApp.run: load_all_data, then create_bundesland_maps
SpecPipeline == InitPipeline /\ [][NextPipeline]_vars

\* the region the reference file has for a raw city: that of the latest row
\* whose name is the city, both normalized
file_regions(city) ==
    LET hits == {j \in rows_of(files.cities) :
                    /\ notna(files.cities.rows[j]["Stadt"])
                    /\ notna(city)
                    /\ str_strip_lower(files.cities.rows[j]["Stadt"]) = str_strip_lower(city)}
    IN  IF hits = {} THEN {} ELSE {files.cities.rows[SetMax(hits)]["Bundesland"]}

\* the filtered set of this kind has the record of the file with this area
in_filtered(e, kind, record) ==
    \E r \in 1..Len(e[kind].rows) :
        /\ e[kind].rows[r]["area_ha"] = record["area_ha"]
        /\ e[kind].rows[r]["city"] = record["city"]

\* C20: when the federal states are filtered, the records of every kind
\* have been through the resolver: a park, a cemetery or a campground with a
\* geometry whose city is in the reference file is in the filtered set of
\* that city's region.
C20_EveryKindResolvedBeforeFiltering ==
    \A n \in 1..Len(filtered) : \A kind \in kinds :
        \A i \in rows_of(files[kind]) :
            ( /\ notna(files[kind].rows[i]["geometry"])
              /\ filtered[n].bundesland \in file_regions(files[kind].rows[i]["city"]) ) =>
                /\ "bundesland" \in data[kind].gdf.columns
                /\ in_filtered(filtered[n], kind, files[kind].rows[i])

-----------------------------------------------------------------------------
(* C21 *)

\* the records of a table, each with all its cells
records(t) == {t.rows[i] : i \in 1..Len(t.rows)}

has_region_column(t) == ~ empty(t) /\ "bundesland" \in t.columns

\* C21: the filtered set of a federal state holds exactly the records of the
\* loaded table whose region is that state, each once and in their order; a
\* record without a region is in no filtered set, the filtered sets of two
\* states share no record, and a table that is empty or has no region
\* column gives an empty set.
C21_RegionFiltering ==
    \A n \in 1..Len(filtered) : \A kind \in kinds :
        LET gdf == data[kind].gdf
            e == filtered[n][kind]
            hits == {i \in 1..Len(gdf.rows) :
                        has_region_column(gdf)
                        /\ gdf.rows[i]["bundesland"] = filtered[n].bundesland}
        IN  /\ records(e) = {gdf.rows[i] : i \in hits}
            /\ Len(e.rows) = Cardinality(hits)
            /\ \A j, k \in 1..Len(e.rows) :
                  j < k => \E a, b \in hits : a < b /\ gdf.rows[a] = e.rows[j]
                                              /\ gdf.rows[b] = e.rows[k]
            /\ \A r \in records(e) : notna(r["bundesland"])
            /\ ~ has_region_column(gdf) => e.rows = <<>>
            /\ \A m \in 1..Len(filtered) :
                  filtered[m].bundesland # filtered[n].bundesland =>
                      records(filtered[m][kind]) \cap records(e) = {}

\* every federal state has been filtered: one kind has a record in a state's
\* set, one has a record without a region, one has records and no region column
C21_Witness ==
    /\ Len(filtered) = Len(federal_states)
    /\ \E n \in 1..Len(filtered) : \E kind \in kinds : filtered[n][kind].rows # <<>>
    /\ \E kind \in kinds :
          /\ has_region_column(data[kind].gdf)
          /\ \E r \in records(data[kind].gdf) : isna(r["bundesland"])
    /\ \E kind \in kinds :
          /\ data[kind].gdf.rows # <<>>
          /\ "bundesland" \notin data[kind].gdf.columns

-----------------------------------------------------------------------------
(* The dashboard's area range, streamlit_sens.py lines 212-232 and 372-400 *)

\* areas are counted in steps of the slider, 0.1 ha
DefaultSliderMin == 10

DefaultSliderMax == 200

\* the areas the user picks from
AreaChoices == {0, 10, 25, 200}

has(s, key) == key \in DOMAIN s

\* st.session_state[key] = v
put(s, key, v) == [k \in DOMAIN s \cup {key} |-> IF k = key THEN v ELSE s[k]]

\* lines 213-221
init_session_state(s) ==
    LET a == IF has(s, "slider_min") THEN s
             ELSE put(put(s, "slider_min", DefaultSliderMin), "slider_max", DefaultSliderMax)
    IN  IF has(a, "manual_min") THEN a
        ELSE put(put(a, "manual_min", a["slider_min"]), "manual_max", a["slider_max"])

\* lines 224-227
update_manual_from_slider(s) ==
    put(put(s, "manual_min", s["slider_min"]), "manual_max", s["slider_max"])

\* lines 229-232
update_slider_from_manual(s) ==
    put(put(s, "slider_min", s["manual_min"]), "slider_max", s["manual_max"])

\* st.slider puts a range given as its value in order
ordered(value) == IF value[1] > value[2] THEN <<value[2], value[1]>> ELSE value

\* lines 372-380: what the slider with the key slider_range returns in a run
\* whose value argument is value, when the run before had earlier_value. A
\* Streamlit that identifies the widget by its arguments starts it afresh
\* from a changed value; one that identifies it by its key keeps its state.
slider(s, value, earlier_value) ==
    IF ~ has(s, "slider_range") THEN ordered(value)
    ELSE IF widget_identity = "parameters" /\ value # earlier_value THEN ordered(value)
    ELSE s["slider_range"]

\* lines 345-491: one run of the script; the range goes to process_data_with_params
main(s, earlier_value) ==
    LET a == init_session_state(s)
        r == slider(a, <<a["slider_min"], a["slider_max"]>>, earlier_value)
    IN  [session_state |-> put(a, "slider_range", r), area_range |-> r]

InitSession ==
    /\ no_call
    /\ no_app
    /\ no_calc
    /\ session_state = <<>>
    /\ area_range = <<>>
    /\ widget_identity \in {"parameters", "key"}

\* the value argument the slider had in the last run
last_value == <<session_state["slider_min"], session_state["slider_max"]>>

\* the first run of the script in a session
FirstRun ==
    /\ session_state = <<>>
    /\ session_state' = main(session_state, <<>>).session_state
    /\ area_range' = main(session_state, <<>>).area_range
    /\ UNCHANGED <<call_vars, app, calc, widget_identity>>

\* the user moves the slider: the callback, then a run of the script
ChangeSlider ==
    /\ session_state # <<>>
    /\ \E lo, hi \in AreaChoices :
          /\ lo <= hi
          /\ <<lo, hi>> # session_state["slider_range"]
          /\ LET changed == put(session_state, "slider_range", <<lo, hi>>)
                 rerun == main(update_manual_from_slider(changed), last_value)
             IN  /\ session_state' = rerun.session_state
                 /\ area_range' = rerun.area_range
    /\ UNCHANGED <<call_vars, app, calc, widget_identity>>

\* the user edits a number input: the callback, then a run of the script
ChangeManual ==
    /\ session_state # <<>>
    /\ \E key \in {"manual_min", "manual_max"} : \E v \in AreaChoices :
          /\ v # session_state[key]
          /\ LET changed == put(session_state, key, v)
                 rerun == main(update_slider_from_manual(changed), last_value)
             IN  /\ session_state' = rerun.session_state
                 /\ area_range' = rerun.area_range
    /\ UNCHANGED <<call_vars, app, calc, widget_identity>>

NextSession ==
    \/ FirstRun
    \/ ChangeSlider
    \/ ChangeManual

SpecSession == InitSession /\ [][NextSession]_vars

-----------------------------------------------------------------------------
(* C22 *)

\* C22: after the user has moved the slider and the callback and the script
\* have run, manual_min and manual_max are the bounds selected on the slider.
C22_SliderToManual ==
    [][ChangeSlider =>
           /\ session_state'["manual_min"] = session_state'["slider_range"][1]
           /\ session_state'["manual_max"] = session_state'["slider_range"][2]]_vars

-----------------------------------------------------------------------------
(* C23 *)

\* C23: after the user has edited a number input and the callback and the
\* script have run, the range passed to process_data_with_params is
\* (manual_min, manual_max).
C23_ManualToSlider ==
    [][ChangeManual =>
           area_range' = <<session_state'["manual_min"], session_state'["manual_max"]>>]_vars

-----------------------------------------------------------------------------
(* C24 *)

\* the name columns of the facility files
LoaderColumns == { {"city"}, {"City", "name"}, {"name", "Stadt"}, {"stadt", "Name"}, {"ort"} }

\* a facility file with these name columns
loader_table(C, rs) ==
    [columns |-> C \cup {"area_ha", "geometry"},
     dtypes  |-> [c \in C \cup {"area_ha", "geometry"} |->
                     IF c = "area_ha" THEN "float64" ELSE "object"],
     rows    |-> [i \in 1..Len(rs) |->
                     [c \in C \cup {"area_ha", "geometry"} |->
                         IF c = "area_ha" THEN i
                         ELSE IF c = "geometry" THEN rs[i].geometry
                         ELSE rs[i].names[c]]]]

LoaderTables ==
    UNION { { loader_table(C, rs) :
                rs \in SeqsUpTo([names : [C -> {berlin_trailing, Lin}],
                                 geometry : {Point, NaN}], MaxRecords) } :
            C \in LoaderColumns }

\* the file of the other kind: missing, or one record
OtherLoaderTables ==
    { NoTable,
      loader_table({"stadt", "Name"},
                   <<[names |-> [stadt |-> Lin, Name |-> berlin_trailing],
                      geometry |-> Point]>>) }

InitLoader ==
    /\ no_call
    /\ no_session
    /\ no_calc
    /\ \E t \in LoaderTables : \E u \in OtherLoaderTables : \E cities \in SchemaCityTables :
          files \in { [parks |-> t, cemetery |-> u, cities |-> cities],
                      [parks |-> u, cemetery |-> t, cities |-> cities] }
    /\ data = <<>>
    /\ filtered = <<>>
    /\ app_pc = "load_parks"

NextLoader ==
    \/ LoadParks
    \/ LoadCemetery

\* load_parks_data and load_cemetery_data on files with any name columns
SpecLoader == InitLoader /\ [][NextLoader]_vars

\* the possible city columns of t none of whose predecessors in the list is
\* a column of t: one name or none
first_present(t) ==
    { possible_city_columns[k] : k \in
        { k \in 1..Len(possible_city_columns) :
            /\ possible_city_columns[k] \in t.columns
            /\ \A j \in 1..(k - 1) : possible_city_columns[j] \notin t.columns } }

\* the table has no region column and is the table loaded
without_region(t, loaded) == t = loaded /\ "bundesland" \notin t.columns

\* C24: load_parks_data and load_cemetery_data resolve the records by the
\* first of city, City, name, Name, stadt, Stadt that is a column of the
\* loaded table; when none is, or the cities table is empty, the records
\* are returned as loaded, without a region.
C24_CityColumnChoice ==
    \A kind \in {"parks", "cemetery"} \cap DOMAIN data :
        LET loaded == process_geometry_column(files[kind])
            gdf == create_geodataframe(loaded)
            cities == load_cities_data(files.cities)
        IN  ~ empty(files[kind]) =>
              /\ (first_present(loaded) = {} \/ empty(cities)) =>
                    /\ without_region(data[kind].df, loaded)
                    /\ without_region(data[kind].gdf, gdf)
              /\ \A c \in first_present(loaded) : ~ empty(cities) =>
                    /\ data[kind].df = merge_with_bundesland(loaded, cities, c)
                    /\ ~ empty(gdf) =>
                          data[kind].gdf = merge_with_bundesland(gdf, cities, c)

\* the parks file has two of the possible names with different cities in its
\* record, which got the region of the first name's city; the cemetery file
\* went through the loader too
C24_Witness ==
    /\ DOMAIN data = {"parks", "cemetery"}
    /\ files.parks.columns = {"stadt", "Name", "area_ha", "geometry"}
    /\ Len(files.parks.rows) = 1
    /\ files.parks.rows[1]["Name"] = berlin_trailing
    /\ files.parks.rows[1]["stadt"] = Lin
    /\ "bundesland" \in data.parks.df.columns
    /\ Len(data.parks.df.rows) = 1
    /\ data.parks.df.rows[1]["bundesland"] = Berlin
    /\ "bundesland" \notin data.cemetery.df.columns

-----------------------------------------------------------------------------
(* C25 *)

\* C25: a round of the fuzzy pass visits a record the exact pass left without
\* a region, and writes at most the region of that record: every other
\* record, every other cell of the record and the columns stay as they were.
C25_FuzzyFrame ==
    [][FuzzyMatch =>
          LET idx == unmatched_idx[pos + 1]
              visited == df_enhanced.rows[idx]
          IN  /\ isna(visited["bundesland"])
              /\ isna(map(visited[clean_name(df_city_column)], city_bundesland_mapping))
              /\ df_enhanced'.columns = df_enhanced.columns
              /\ Len(df_enhanced'.rows) = Len(df_enhanced.rows)
              /\ \A i \in 1..Len(df_enhanced.rows) :
                    \A c \in df_enhanced.columns :
                        (i # idx \/ c # "bundesland") =>
                            df_enhanced'.rows[i][c] = df_enhanced.rows[i][c]]_vars

\* a round of the fuzzy pass has given a record a region, in a table where
\* the exact pass had given another record its region
C25_Witness ==
    /\ pc = "fuzzy"
    /\ fuzzy_log # <<>>
    /\ notna(df_enhanced.rows[fuzzy_log[1].idx]["bundesland"])
    /\ \E i \in 1..Len(df_enhanced.rows) :
          /\ \A k \in 1..Len(unmatched_idx) : unmatched_idx[k] # i
          /\ notna(df_enhanced.rows[i]["bundesland"])

-----------------------------------------------------------------------------
(* C26 *)

\* facility tables on which the call fails: a city column that holds no
\* string, a blank name, with and without a region column of their own
ErrorTables ==
    { [columns |-> {"city", "area_ha"} \cup X,
       dtypes  |-> [c \in {"city", "area_ha"} \cup X |->
                       IF c = "city" THEN d ELSE IF c = "area_ha" THEN "float64" ELSE "object"],
       rows    |-> [i \in 1..Len(cs) |->
                       [c \in {"city", "area_ha"} \cup X |->
                           IF c = "city" THEN cs[i]
                           ELSE IF c = "area_ha" THEN i
                           ELSE Hessen]]] :
         X \in SUBSET {"bundesland"}, cs \in SeqsUpTo({Nowhereville, Blank, NaN}, MaxFacilities),
         d \in {"object", "float64"} }

ErrorCityTables ==
    { [columns |-> {"Stadt", "Bundesland"},
       dtypes  |-> [c \in {"Stadt", "Bundesland"} |-> "object"],
       rows    |-> rs] :
         rs \in {<<>>,
                 <<[Stadt |-> Berlin, Bundesland |-> Berlin]>>,
                 <<[Stadt |-> Berlin, Bundesland |-> Berlin],
                   [Stadt |-> Blank, Bundesland |-> NaN]>>} }

InitError ==
    /\ df \in ErrorTables
    /\ well_typed(df, "city")
    /\ cities_df \in ErrorCityTables
    /\ df_city_column \in {"city", "ort"}
    /\ pc = "start"
    /\ df_enhanced = NoTable
    /\ cities_clean = NoTable
    /\ city_bundesland_mapping = <<>>
    /\ unmatched_idx = <<>>
    /\ pos = 0
    /\ fuzzy_log = <<>>
    /\ stats = <<>>
    /\ exc = ""
    /\ returned = <<>>
    /\ other = NoCall
    /\ no_app
    /\ no_session
    /\ no_calc

\* the call on tables that make it fail at each of its stages
SpecError == InitError /\ [][Next]_vars

\* C26 as stated: after any exception inside the call, the call returns the
\* table it was given, and that table has no region column.
C26_ErrorReturnsInputWithoutRegion ==
    [][HandleException =>
          /\ returned' = <<df>>
          /\ "bundesland" \notin returned'[1].columns]_vars

\* C26, amended: no step of the call writes the table it was given, and
\* after any exception inside the call the call does not raise: it returns
\* that table, with the columns and cells it had (a region column only when
\* the input had one of its own), and no statistics.
C26_ErrorReturnsInput ==
    [][/\ df' = df
       /\ HandleException =>
             /\ returned' = <<df>>
             /\ stats' = <<>>]_vars

\* the call has failed in its fuzzy pass after that pass had assigned a
\* region, and returned the table it was given
C26_Witness ==
    /\ pc = "done"
    /\ exc = "ZeroDivisionError"
    /\ fuzzy_log # <<>>
    /\ returned = <<df>>
    /\ "bundesland" \notin df.columns

-----------------------------------------------------------------------------
(* C27 *)

\* the regions of the records of a table, none for a table without the column
regions_of(t) == IF "bundesland" \in t.columns THEN <<column(t, "bundesland")>> ELSE <<>>

\* t with v as the region every record brings along
with_region(t, v) == set_column(t, "bundesland", [i \in 1..Len(t.rows) |-> v])

\* a facility table with one record that has a city and nothing else
city_alone(city) ==
    [columns |-> {"city"}, dtypes |-> [c \in {"city"} |-> "object"],
     rows |-> <<[c \in {"city"} |-> city]>>]

\* the region values an input may bring along
PreexistingRegions == {Hessen, Bayern, NaN}

-----------------------------------------------------------------------------
(* C28 *)

\* C28: whatever columns the facility table has, the table a finished call
\* returns has exactly those columns and bundesland: the temporary column of
\* the cleaned names is not among them, and no column of the input is missing.
C28_OutputSchema ==
    completed =>
        /\ returned[1].columns = df.columns \cup {"bundesland"}
        /\ clean_name(df_city_column) \notin returned[1].columns

-----------------------------------------------------------------------------
(* C29 *)

ab == <<"a","b">>

ba == <<"b","a">>

aab == <<"a","a","b">>

abc == <<"a","b","c">>

\* names that share their characters, wholly or in part
AnagramNames == {ab, ba, aab, abc, <<"a">>}

\* the reference row of a name: every name has a region of its own
anagram_row(n) ==
    [Stadt |-> n,
     Bundesland |-> CASE n = ab -> Berlin [] n = ba -> Bayern [] n = aab -> Hessen
                      [] n = abc -> Sachsen [] OTHER -> BerlinAlt]

InitAnagram ==
    /\ \E cs \in SeqsUpTo(AnagramNames, MaxFacilities) :
          df = [columns |-> {"city", "area_ha"},
                dtypes  |-> [c \in {"city", "area_ha"} |->
                                IF c = "city" THEN "object" ELSE "float64"],
                rows    |-> [i \in 1..Len(cs) |-> [city |-> cs[i], area_ha |-> i]]]
    /\ \E ns \in SeqsUpTo(AnagramNames, MaxCities) :
          cities_df = [columns |-> {"Stadt", "Bundesland"},
                       dtypes  |-> [c \in {"Stadt", "Bundesland"} |-> "object"],
                       rows    |-> [j \in 1..Len(ns) |-> anagram_row(ns[j])]]
    /\ df_city_column \in CityColumns(cities_df)
    /\ pc = "start"
    /\ df_enhanced = NoTable
    /\ cities_clean = NoTable
    /\ city_bundesland_mapping = <<>>
    /\ unmatched_idx = <<>>
    /\ pos = 0
    /\ fuzzy_log = <<>>
    /\ stats = <<>>
    /\ exc = ""
    /\ returned = <<>>
    /\ other = NoCall
    /\ no_app
    /\ no_session
    /\ no_calc

\* the call on names with the same characters
SpecAnagram == InitAnagram /\ [][Next]_vars

\* the score of the non-empty names a and b is in [0, 1], the same in both
\* directions, and 1 exactly when the names have the same characters
score_laws(a, b) ==
    /\ score(a, b).den > 0
    /\ 0 <= score(a, b).num
    /\ score(a, b).num <= score(a, b).den
    /\ score(a, b) = score(b, a)
    /\ (score(a, b).num = score(a, b).den) <=> (set(a) = set(b))

\* the reference names with the characters of c, and the first of them
same_characters(c) == {j \in rows_of(cities_df) : set(normalized_name(j)) = set(c)}

first_same_characters(c) == normalized_name(SetMin(same_characters(c)))

\* the record's name is not a reference name, so the exact pass leaves it
left_to_fuzzy(i) == normalized_city(i) \notin reference_names

\* C29 as stated: the score of two non-empty normalized names is in [0, 1],
\* symmetric, and 1 exactly when they have the same characters; so a record
\* is fuzzy-matched to every reference name that differs from its name and
\* has the same characters.
C29_EqualCharacterSetsMatchEachOther ==
    /\ pc = "map" =>
          \A i \in rows_of(df) : \A n \in reference_names :
              score_laws(normalized_city(i), n)
    /\ completed =>
          \A i \in rows_of(df) : \A j \in same_characters(normalized_city(i)) :
              left_to_fuzzy(i) =>
                  \E e \in fuzzy_entry(i) : e.best_match = normalized_name(j)

\* C29, amended: the score of two non-empty normalized names is in [0, 1],
\* symmetric, and 1 exactly when they have the same characters; so a record
\* whose name is no reference name, while some reference name has the same
\* characters, is fuzzy-matched with the score 1 to the first reference name
\* with those characters.
C29_EqualCharacterSetsMatchFirst ==
    /\ pc = "map" =>
          \A i \in rows_of(df) : \A n \in reference_names :
              score_laws(normalized_city(i), n)
    /\ completed =>
          \A i \in rows_of(df) :
              (left_to_fuzzy(i) /\ same_characters(normalized_city(i)) # {}) =>
                  \E e \in fuzzy_entry(i) :
                      /\ e.best_match = first_same_characters(normalized_city(i))
                      /\ e.best_score.num = e.best_score.den

\* the record "aab" has been matched to "ba", the first of the two reference
\* names with its characters
C29_Witness ==
    /\ completed
    /\ \E i \in rows_of(df) :
          /\ df.rows[i]["city"] = aab
          /\ cities_df.rows[1]["Stadt"] = ba
          /\ Len(cities_df.rows) = 2
          /\ cities_df.rows[2]["Stadt"] = ab
          /\ region_of(i) = Bayern

-----------------------------------------------------------------------------
(* The workforce calculations: src/utils/calculations.py lines 10-34 and
   streamlit_sens.py lines 235-245 *)

\* Config.AREA_TO_MINUTES_FACTOR, 1.3 minutes per square metre, in tenths
AREA_TO_MINUTES_FACTOR == 13

WORKING_HOURS_PER_DAY == 5

WORKING_DAYS_PER_YEAR == 220

\* the largest area asked for, in tenths of a hectare
MaxArea == 60

\* an area is a float (counted in tenths of a hectare), or a value that is no
\* area: a missing cell, an infinite float, None
number(n) == [kind |-> "float", tenths |-> n]

NoArea == {[kind |-> k, tenths |-> 0] : k \in {"nan", "inf", "None"}}

AreaInputs == {number(n) : n \in (0 - 3)..MaxArea} \cup NoArea

\* what a call gave: the number it returned, or the exception it raised
gave(n) == [raised |-> "", value |-> n]

raised(e) == [raised |-> e, value |-> 0]

\* math.ceil(p / q) for q > 0
ceil(p, q) == 0 - ((0 - p) \div q)

\* area * 10000 * factor / 60 / hours / days, rounded up: with the area in
\* tenths of a hectare and the factor in tenths, 100 in the numerator
workers_for(area, min_pro_m2, std_pro_tag, tage_pro_jahr) ==
    ceil(area.tenths * 100 * min_pro_m2, 60 * std_pro_tag * tage_pro_jahr)

\* the arithmetic of both functions on a value that is no area: None cannot
\* be multiplied, math.ceil refuses a NaN and an infinite float
arithmetic_error(area) ==
    CASE area.kind = "None" -> "TypeError"
      [] area.kind = "nan"  -> "ValueError"
      [] area.kind = "inf"  -> "OverflowError"
      [] OTHER              -> ""

\* max(1, n)
at_least_one(n) == max(1, n)

\* calculations.py lines 10-34: ValueError and ZeroDivisionError are caught
calculate_required_workers(area) ==
    IF arithmetic_error(area) = ""
    THEN gave(at_least_one(workers_for(area, AREA_TO_MINUTES_FACTOR, WORKING_HOURS_PER_DAY,
                                       WORKING_DAYS_PER_YEAR)))
    ELSE IF arithmetic_error(area) \in {"ValueError", "ZeroDivisionError"}
    THEN gave(1)
    ELSE raised(arithmetic_error(area))

\* streamlit_sens.py lines 235-245: nothing is caught; None <= 0 is a
\* TypeError, NaN <= 0 and inf <= 0 are false
berechne_arbeiter(area, min_pro_m2, std_pro_tag, tage_pro_jahr) ==
    IF area.kind = "None" THEN raised("TypeError")
    ELSE IF area.kind = "float" /\ area.tenths <= 0 THEN gave(0)
    ELSE IF arithmetic_error(area) # "" THEN raised(arithmetic_error(area))
    ELSE gave(at_least_one(workers_for(area, min_pro_m2, std_pro_tag, tage_pro_jahr)))

InitWorkers ==
    /\ no_call
    /\ no_app
    /\ no_session
    /\ area_ha \in AreaInputs
    /\ workers = <<>>

\* the map's popups ask for the workers of the area
CalculateRequiredWorkers ==
    /\ "map" \notin DOMAIN workers
    /\ workers' = put(workers, "map", calculate_required_workers(area_ha))
    /\ UNCHANGED <<call_vars, app, ui, area_ha>>

\* the dashboard asks for the workers of the area, its sliders at their defaults
BerechneArbeiter ==
    /\ "dashboard" \notin DOMAIN workers
    /\ workers' = put(workers, "dashboard",
                      berechne_arbeiter(area_ha, AREA_TO_MINUTES_FACTOR, WORKING_HOURS_PER_DAY,
                                        WORKING_DAYS_PER_YEAR))
    /\ UNCHANGED <<call_vars, app, ui, area_ha>>

NextWorkers ==
    \/ CalculateRequiredWorkers
    \/ BerechneArbeiter

SpecWorkers == InitWorkers /\ [][NextWorkers]_vars

-----------------------------------------------------------------------------
(* C30 *)

\* C30: for every area, zero, negative and invalid ones included,
\* calculate_required_workers returns an integer that is at least 1, and the
\* dashboard's berechne_arbeiter with the default parameters returns the
\* same number.
C30_SameWorkers ==
    /\ "map" \in DOMAIN workers =>
          (workers["map"].raised = "" /\ workers["map"].value >= 1)
    /\ DOMAIN workers = {"map", "dashboard"} =>
          workers["dashboard"] = workers["map"]

====
